---- MODULE Spec2Model ----
(***************************************************************************)
(* A model of the in-memory property graph of src/graph.py.                *)
(*                                                                         *)
(* Python objects are modelled as heap cells: a Node object is an index of *)
(* nodeHeap, an Edge object an index of edgeHeap, a dict used as an edge's *)
(* property map an index of dicts.  Object identity (`is`) is equality of  *)
(* indices.  A Python dict that the code iterates (Graph.nodes,            *)
(* Graph.edges, Node.outgoing, Node.incoming) is a sequence of entries     *)
(* [k, v] in insertion order; assigning to a key that is already present   *)
(* replaces the value in place, as for a Python dict.                      *)
(***************************************************************************)
EXTENDS Integers, Sequences, FiniteSets, TLC

VARIABLES
    nodeHeap,   \* every Node object constructed so far (by add_node or by the caller)
    edgeHeap,   \* every Edge object constructed so far
    dicts,      \* dict objects used as edge property maps; dicts[1] is add_edge's default
    nodes,      \* Graph.nodes: uid -> Node object
    edges,      \* Graph.edges: uid -> Edge object
    nextUid,    \* number of identifiers the generator has handed out
    call,       \* the operation called last: [op, args, ret]
    frame       \* locals of follow_edge_on_label: pc is "loop" while it runs

vars == <<nodeHeap, edgeHeap, dicts, nodes, edges, nextUid, call, frame>>

----------------------------------------------------------------------------
(* Bounds of the model *)

\* Spec: Node objects, Edge objects and generated identifiers
MaxNodes == 2

MaxEdges == 2

MaxUid == 4

\* SpecWalk: Node objects, Edge objects, and the cap of the hop counter
WalkNodes == 3

WalkEdges == 2

MaxHops == 3

\* SpecFind: Node objects
FindNodes == 2

\* SpecQuery: Node and Edge objects together
QueryObjects == 4

\* SpecProps: Edge objects created
PropEdges == 2

----------------------------------------------------------------------------
(* Values *)

None == 0

Labels == {"WITHIN", "L"}

Keys == {"type", "name"}

\* Python's None as a property value
PyNone == "None"

\* the values each key takes in the stores and queries explored
Vals(key) == IF key = "type" THEN {"Person", PyNone} ELSE {"Lucy", "Bob", "Person"}

\* every property map over Keys
PropertyMaps ==
    UNION {{p \in [D -> {"Person", "Lucy", "Bob", PyNone}] :
                \A key \in D : p[key] \in Vals(key)} : D \in SUBSET Keys}

EmptyDict == <<>>

Lucy == [type |-> "Person", name |-> "Lucy"]

Bob == [type |-> "Person", name |-> "Bob"]

\* uids a caller passes explicitly that the generator never returns
ExplicitUids == {101}

NoKwargs == [has |-> FALSE, uid |-> None]

UidKwarg(u) == [has |-> TRUE, uid |-> u]

NoProperties == [has |-> FALSE, val |-> EmptyDict]

Properties(p) == [has |-> TRUE, val |-> p]

----------------------------------------------------------------------------
(* Python dict operations on insertion-ordered entry sequences *)

DictKeys(d) == {d[i].k : i \in 1..Len(d)}

DictIndex(d, key) == CHOOSE i \in 1..Len(d) : d[i].k = key

DictGet(d, key) ==
    IF key \in DictKeys(d) THEN d[DictIndex(d, key)].v ELSE None

\* mutant of DictSet: the mapping is rebound to a dict of the new entry alone
DictSetRebinds(d, key, val) == <<[k |-> key, v |-> val]>>

\* mutant of DictSet: setdefault, an entry already present keeps its value
DictSetKeepsFirst(d, key, val) ==
    IF key \in DictKeys(d) THEN d ELSE Append(d, [k |-> key, v |-> val])

\* mutant of DictSet: the entry is appended although the key is present
DictSetAppends(d, key, val) == Append(d, [k |-> key, v |-> val])

DictSet(d, key, val) ==
    IF key \in DictKeys(d)
    THEN [d EXCEPT ![DictIndex(d, key)] = [k |-> key, v |-> val]]
    ELSE Append(d, [k |-> key, v |-> val])

DictValues(d) == [i \in 1..Len(d) |-> d[i].v]

\* dict.get on a property map: None when the key is absent
PropGet(d, key) == IF key \in DOMAIN d THEN d[key] ELSE PyNone

----------------------------------------------------------------------------
(* Return values *)

RetNone == [kind |-> "none", val |-> None]

RetNode(n) == [kind |-> "node", val |-> n]

RetEdge(e) == [kind |-> "edge", val |-> e]

RetList(kind, s) == [kind |-> kind, val |-> s]

RetRaise == [kind |-> "KeyError", val |-> None]

Running == [kind |-> "running", val |-> None]

Idle == [pc |-> "idle"]

----------------------------------------------------------------------------
(* Constructors *)

\* mutant of Node: the properties argument is not passed on
NodeWithoutProperties(uid, properties) ==
    [uid |-> uid, properties |-> EmptyDict, outgoing |-> <<>>, incoming |-> <<>>]

Node(uid, properties) ==
    [uid |-> uid, properties |-> properties, outgoing |-> <<>>, incoming |-> <<>>]

Edge(uid, label, tail, head, properties) ==
    [uid |-> uid, label |-> label, tail |-> tail, head |-> head,
     properties |-> properties]

_generate_uid == nextUid + 1

Init ==
    /\ nodeHeap = <<>>
    /\ edgeHeap = <<>>
    /\ dicts = <<EmptyDict>>
    /\ nodes = <<>>
    /\ edges = <<>>
    /\ nextUid = 0
    /\ call = [op |-> "__init__", args |-> <<>>, ret |-> RetNone]
    /\ frame = Idle

----------------------------------------------------------------------------
(* Operations *)

\* The caller constructs a Node itself; the store does not hold it.
MakeNode(uid) ==
    /\ frame.pc # "loop"
    /\ nodeHeap' = Append(nodeHeap, Node(uid, EmptyDict))
    /\ call' = [op |-> "Node", args |-> [uid |-> uid],
                ret |-> RetNode(Len(nodeHeap) + 1)]
    /\ UNCHANGED <<edgeHeap, dicts, nodes, edges, nextUid, frame>>

add_node(properties, kwargs) ==
    LET uid == IF kwargs.has THEN kwargs.uid ELSE _generate_uid
        new == Len(nodeHeap) + 1
    IN  /\ frame.pc # "loop"
        /\ nextUid' = nextUid + 1
        /\ nodeHeap' = Append(nodeHeap, Node(uid, properties))
        /\ nodes' = DictSet(nodes, uid, new)
        /\ call' = [op |-> "add_node",
                    args |-> [properties |-> properties, kwargs |-> kwargs],
                    ret |-> RetNode(DictGet(nodes', uid))]
        /\ UNCHANGED <<edgeHeap, dicts, edges, frame>>

node(uid) == DictGet(nodes, uid)

edge(uid) == DictGet(edges, uid)

\* mutant of EndpointsAbsent: the second comparison is inverted
EndpointsAbsentInverted(tail_uid, head_uid) ==
    node(tail_uid) = None /\ node(head_uid) # None

\* the check of line 89
EndpointsAbsent(tail_uid, head_uid) ==
    node(tail_uid) = None /\ node(head_uid) = None

\* mutant of LinkOutgoing: the entry is keyed by the node's uid
LinkOutgoingKeyedByNode(heap, n, key, e) ==
    [heap EXCEPT ![n].outgoing = DictSet(@, heap[n].uid, e)]

\* line 96: self.nodes[tail_uid].outgoing[key] = e
LinkOutgoing(heap, n, key, e) ==
    [heap EXCEPT ![n].outgoing = DictSet(@, key, e)]

\* mutant of LinkIncoming: the edge goes into the outgoing map again
LinkIncomingAsOutgoing(heap, n, key, e) ==
    [heap EXCEPT ![n].outgoing = DictSet(@, key, e)]

\* line 97: self.nodes[head_uid].incoming[key] = e
LinkIncoming(heap, n, key, e) ==
    [heap EXCEPT ![n].incoming = DictSet(@, key, e)]

add_edge(tail, label, head, properties, kwargs) ==
    LET uid == IF kwargs.has THEN kwargs.uid ELSE _generate_uid
        tail_uid == nodeHeap[tail].uid
        head_uid == nodeHeap[head].uid
        args == [tail |-> tail, label |-> label, head |-> head,
                 properties |-> properties, kwargs |-> kwargs]
        dicts1 == IF properties.has THEN Append(dicts, properties.val) ELSE dicts
        pref == IF properties.has THEN Len(dicts1) ELSE 1
        new == Len(edgeHeap) + 1
        edgeHeap1 == Append(edgeHeap, Edge(uid, label, tail, head, pref))
        edges1 == DictSet(edges, uid, new)
        e == DictGet(edges1, uid)
        t == DictGet(nodes, tail_uid)
        h == DictGet(nodes, head_uid)
        nodeHeap1 == LinkOutgoing(nodeHeap, t, edgeHeap1[e].uid, e)
        nodeHeap2 == LinkIncoming(nodeHeap1, h, edgeHeap1[e].uid, e)
    IN  /\ frame.pc # "loop"
        /\ nextUid' = nextUid + 1
        /\ UNCHANGED <<nodes, frame>>
        /\ IF EndpointsAbsent(tail_uid, head_uid)
           THEN /\ call' = [op |-> "add_edge", args |-> args, ret |-> RetNone]
                /\ UNCHANGED <<nodeHeap, edgeHeap, dicts, edges>>
           ELSE /\ edgeHeap' = edgeHeap1
                /\ dicts' = dicts1
                /\ edges' = edges1
                /\ IF tail_uid \notin DictKeys(nodes)
                   THEN /\ nodeHeap' = nodeHeap
                        /\ call' = [op |-> "add_edge", args |-> args, ret |-> RetRaise]
                   ELSE IF head_uid \notin DictKeys(nodes)
                   THEN /\ nodeHeap' = nodeHeap1
                        /\ call' = [op |-> "add_edge", args |-> args, ret |-> RetRaise]
                   ELSE /\ nodeHeap' = nodeHeap2
                        /\ call' = [op |-> "add_edge", args |-> args,
                                    ret |-> RetEdge(DictGet(edges1, uid))]

\* direct access to an edge's property map: e.properties[key] = val
SetEdgeProperty(e, key, val) ==
    /\ frame.pc # "loop"
    /\ dicts' = [dicts EXCEPT ![edgeHeap[e].properties] =
                     [k \in DOMAIN @ \cup {key} |-> IF k = key THEN val ELSE @[k]]]
    /\ call' = [op |-> "properties.__setitem__",
                args |-> [edge |-> e, key |-> key, val |-> val],
                ret |-> RetNone]
    /\ UNCHANGED <<nodeHeap, edgeHeap, nodes, edges, nextUid, frame>>

----------------------------------------------------------------------------
(* Queries *)

\* mutant of _match_dict: only a match of every queried key counts
MatchDictExact(d1, d2) ==
    IF \A key \in DOMAIN d2 : PropGet(d1, key) = d2[key]
    THEN Cardinality(DOMAIN d2)
    ELSE 0

_match_dict(d1, d2) ==
    Cardinality({key \in DOMAIN d2 : PropGet(d1, key) = d2[key]})

find_node(properties) ==
    LET matching(ref) == _match_dict(nodeHeap[ref].properties, properties) # 0
    IN  SelectSeq(DictValues(nodes), matching)

\* mutant of find_node_edges_label_outgoing: the label is not compared
FindOutgoingAnyLabel(n, label) ==
    DictValues(nodeHeap[n].outgoing)

\* mutant of find_node_edges_label_outgoing: the incoming map is scanned
FindOutgoingScansIncoming(n, label) ==
    LET labelled(e) == edgeHeap[e].label = label
    IN  SelectSeq(DictValues(nodeHeap[n].incoming), labelled)

find_node_edges_label_outgoing(n, label) ==
    LET labelled(e) == edgeHeap[e].label = label
    IN  SelectSeq(DictValues(nodeHeap[n].outgoing), labelled)

\* mutant of find_node_edges_label_incoming: the outgoing map is scanned
FindIncomingScansOutgoing(n, label) ==
    LET labelled(e) == edgeHeap[e].label = label
    IN  SelectSeq(DictValues(nodeHeap[n].outgoing), labelled)

find_node_edges_label_incoming(n, label) ==
    LET labelled(e) == edgeHeap[e].label = label
    IN  SelectSeq(DictValues(nodeHeap[n].incoming), labelled)

FindNode(properties) ==
    /\ frame.pc # "loop"
    /\ call' = [op |-> "find_node", args |-> [properties |-> properties],
                ret |-> RetList("nodes", find_node(properties))]
    /\ UNCHANGED <<nodeHeap, edgeHeap, dicts, nodes, edges, nextUid, frame>>

\* mutant of NodeLookup: setdefault instead of get, which inserts an absent uid
NodeLookupSetDefault(uid) ==
    /\ frame.pc # "loop"
    /\ nodes' = IF uid \in DictKeys(nodes) THEN nodes ELSE DictSet(nodes, uid, None)
    /\ call' = [op |-> "node", args |-> [uid |-> uid],
                ret |-> IF node(uid) = None THEN RetNone ELSE RetNode(node(uid))]
    /\ UNCHANGED <<nodeHeap, edgeHeap, dicts, edges, nextUid, frame>>

\* a call of node(uid)
NodeLookup(uid) ==
    /\ frame.pc # "loop"
    /\ call' = [op |-> "node", args |-> [uid |-> uid],
                ret |-> IF node(uid) = None THEN RetNone ELSE RetNode(node(uid))]
    /\ UNCHANGED <<nodeHeap, edgeHeap, dicts, nodes, edges, nextUid, frame>>

\* a call of edge(uid)
EdgeLookup(uid) ==
    /\ frame.pc # "loop"
    /\ call' = [op |-> "edge", args |-> [uid |-> uid],
                ret |-> IF edge(uid) = None THEN RetNone ELSE RetEdge(edge(uid))]
    /\ UNCHANGED <<nodeHeap, edgeHeap, dicts, nodes, edges, nextUid, frame>>

FindOutgoing(n, label) ==
    /\ frame.pc # "loop"
    /\ call' = [op |-> "find_node_edges_label_outgoing",
                args |-> [node |-> n, label |-> label],
                ret |-> RetList("edges", find_node_edges_label_outgoing(n, label))]
    /\ UNCHANGED <<nodeHeap, edgeHeap, dicts, nodes, edges, nextUid, frame>>

FindIncoming(n, label) ==
    /\ frame.pc # "loop"
    /\ call' = [op |-> "find_node_edges_label_incoming",
                args |-> [node |-> n, label |-> label],
                ret |-> RetList("edges", find_node_edges_label_incoming(n, label))]
    /\ UNCHANGED <<nodeHeap, edgeHeap, dicts, nodes, edges, nextUid, frame>>

\* follow_edge_on_label up to its loop: lines 180-184
FollowCall(e, label) ==
    LET curr_head == edgeHeap[e].head
        curr_head_edges_with_label == find_node_edges_label_outgoing(curr_head, label)
        args == [edge |-> e, label |-> label]
    IN  /\ frame.pc # "loop"
        /\ IF Len(curr_head_edges_with_label) = 0
           THEN /\ call' = [op |-> "follow_edge_on_label", args |-> args,
                            ret |-> RetNone, hops |-> 0]
                /\ frame' = Idle
           ELSE /\ call' = [op |-> "follow_edge_on_label", args |-> args,
                            ret |-> Running, hops |-> 0]
                /\ frame' = [pc |-> "loop", edge |-> e, label |-> label,
                             curr_head |-> curr_head,
                             curr_head_edges_with_label |-> curr_head_edges_with_label,
                             hops |-> 0]
        /\ UNCHANGED <<nodeHeap, edgeHeap, dicts, nodes, edges, nextUid>>

\* mutant of LoopCondition: the walk gives up after two hops
LoopConditionBounded ==
    Len(frame.curr_head_edges_with_label) > 0 /\ frame.hops < 2

\* the condition of the while loop, line 186
LoopCondition == Len(frame.curr_head_edges_with_label) > 0

\* mutant of FollowLoop: the walk moves to the edge's tail
FollowLoopStaysAtTail ==
    /\ frame.pc = "loop"
    /\ LoopCondition
    /\ LET e == frame.curr_head_edges_with_label[1]
           curr_head == edgeHeap[e].tail
       IN  frame' = [frame EXCEPT
                        !.edge = e,
                        !.curr_head = curr_head,
                        !.curr_head_edges_with_label =
                            find_node_edges_label_outgoing(curr_head, frame.label),
                        !.hops = IF @ < MaxHops THEN @ + 1 ELSE @]
    /\ UNCHANGED <<nodeHeap, edgeHeap, dicts, nodes, edges, nextUid, call>>

\* one iteration of the loop: lines 186-189
FollowLoop ==
    /\ frame.pc = "loop"
    /\ LoopCondition
    /\ LET e == frame.curr_head_edges_with_label[1]
           curr_head == edgeHeap[e].head
       IN  frame' = [frame EXCEPT
                        !.edge = e,
                        !.curr_head = curr_head,
                        !.curr_head_edges_with_label =
                            find_node_edges_label_outgoing(curr_head, frame.label),
                        !.hops = IF @ < MaxHops THEN @ + 1 ELSE @]
    /\ UNCHANGED <<nodeHeap, edgeHeap, dicts, nodes, edges, nextUid, call>>

\* the loop's exit and the return: line 191
FollowReturn ==
    /\ frame.pc = "loop"
    /\ ~LoopCondition
    /\ call' = [call EXCEPT !.ret = RetNode(frame.curr_head), !.hops = frame.hops]
    /\ frame' = Idle
    /\ UNCHANGED <<nodeHeap, edgeHeap, dicts, nodes, edges, nextUid>>

----------------------------------------------------------------------------
(* Inputs *)

NodeRefs == 1..Len(nodeHeap)

EdgeRefs == 1..Len(edgeHeap)

NodeKwargs == {NoKwargs} \cup {UidKwarg(u) : u \in DictKeys(nodes) \cup ExplicitUids}

EdgeKwargs == {NoKwargs} \cup {UidKwarg(u) : u \in DictKeys(edges)}

OverwriteKwargs == {NoKwargs} \cup {UidKwarg(u) : u \in DictKeys(nodes)}

\* the properties and uid arguments of add_node explored by Spec
NodeInputs ==
    {<<Lucy, NoKwargs>>, <<EmptyDict, NoKwargs>>} \cup {<<Bob, kw>> : kw \in NodeKwargs}

\* the label and properties arguments of add_edge explored by Spec
EdgeInputs == {<<"WITHIN", NoProperties>>, <<"L", Properties([name |-> "Bob"])>>}

----------------------------------------------------------------------------
(* Spec: the create operations with every kind of argument: generated and
   explicit uids, nodes held by the store, overwritten nodes and nodes the
   caller constructed itself *)

Next ==
    \/ /\ Len(nodeHeap) < MaxNodes
       /\ \E u \in ExplicitUids : MakeNode(u)
    \/ /\ Len(nodeHeap) < MaxNodes
       /\ nextUid < MaxUid
       /\ \E a \in NodeInputs : add_node(a[1], a[2])
    \/ /\ Len(edgeHeap) < MaxEdges
       /\ nextUid < MaxUid
       /\ \E t \in NodeRefs, h \in NodeRefs, lp \in EdgeInputs, kw \in EdgeKwargs :
             add_edge(t, lp[1], h, lp[2], kw)

Spec == Init /\ [][Next]_vars

----------------------------------------------------------------------------
(* SpecWalk: graphs built by add_node and add_edge (the nodes first), and
   the label walk *)

NextWalk ==
    \/ /\ Len(nodeHeap) < WalkNodes
       /\ Len(edgeHeap) = 0
       /\ add_node(Lucy, NoKwargs)
    \/ /\ Len(edgeHeap) < WalkEdges
       /\ \E t \in NodeRefs, h \in NodeRefs, l \in Labels :
             add_edge(t, l, h, NoProperties, NoKwargs)
    \/ \E e \in EdgeRefs, l \in Labels : FollowCall(e, l)
    \/ FollowLoop
    \/ FollowReturn

SpecWalk == Init /\ [][NextWalk]_vars

----------------------------------------------------------------------------
(* SpecFind: stores of nodes with every property map, and find_node *)

NextFind ==
    \/ /\ Len(nodeHeap) < FindNodes
       /\ \E p \in PropertyMaps, kw \in OverwriteKwargs : add_node(p, kw)
    \/ \E q \in PropertyMaps : FindNode(q)

SpecFind == Init /\ [][NextFind]_vars

----------------------------------------------------------------------------
(* SpecQuery: stores built by add_node and add_edge (the nodes first) with
   generated and colliding explicit uids, and every query operation *)

\* the uids looked up: the keys of both mappings and one that is absent
LookupUids == DictKeys(nodes) \cup DictKeys(edges) \cup ExplicitUids

NextQuery ==
    \/ /\ Len(nodeHeap) + Len(edgeHeap) < QueryObjects
       /\ Len(edgeHeap) = 0
       /\ \E kw \in OverwriteKwargs : add_node(Lucy, kw)
    \/ /\ Len(nodeHeap) + Len(edgeHeap) < QueryObjects
       /\ \E t \in NodeRefs, h \in NodeRefs, l \in Labels, kw \in EdgeKwargs :
             add_edge(t, l, h, NoProperties, kw)
    \/ \E u \in LookupUids : NodeLookup(u)
    \/ \E u \in LookupUids : EdgeLookup(u)
    \/ FindNode(Bob)
    \/ \E n \in NodeRefs, l \in Labels : FindOutgoing(n, l)
    \/ \E n \in NodeRefs, l \in Labels : FindIncoming(n, l)
    \/ \E e \in EdgeRefs, l \in Labels : FollowCall(e, l)
    \/ FollowLoop
    \/ FollowReturn

SpecQuery == Init /\ [][NextQuery]_vars

----------------------------------------------------------------------------
(* SpecProps: edges on one node, created with and without a properties
   argument, and writes to their property maps by direct access *)

NextProps ==
    \/ /\ Len(nodeHeap) = 0
       /\ add_node(EmptyDict, NoKwargs)
    \/ /\ Len(edgeHeap) < PropEdges
       /\ \E t \in NodeRefs, h \in NodeRefs, lp \in EdgeInputs :
             add_edge(t, lp[1], h, lp[2], NoKwargs)
    \/ \E e \in EdgeRefs, key \in Keys :
          \E val \in Vals(key) : SetEdgeProperty(e, key, val)

SpecProps == Init /\ [][NextProps]_vars

----------------------------------------------------------------------------
(* Definitions the claims use *)

Range(f) == {f[i] : i \in DOMAIN f}

\* the Node object n is the one the store holds under its uid
Held(n) == node(nodeHeap[n].uid) = n

\* the nodes whose outgoing (incoming) map has the Edge object e as a value
OutgoingHolders(e) == {n \in NodeRefs : e \in Range(DictValues(nodeHeap[n].outgoing))}

IncomingHolders(e) == {n \in NodeRefs : e \in Range(DictValues(nodeHeap[n].incoming))}

\* how many entries of the dict d have the value v
Occurrences(d, v) == Cardinality({i \in 1..Len(d) : d[i].v = v})

\* the positions of n's outgoing entries whose edge is labelled label
LabelledAt(n, label) ==
    {i \in 1..Len(nodeHeap[n].outgoing) :
        edgeHeap[nodeHeap[n].outgoing[i].v].label = label}

\* the first outgoing edge of n labelled label (LabelledAt is not empty)
FirstLabelled(n, label) ==
    LET first == CHOOSE i \in LabelledAt(n, label) :
                     \A j \in LabelledAt(n, label) : i <= j
    IN  nodeHeap[n].outgoing[first].v

\* the node the walk moves to from n
Successor(n, label) == edgeHeap[FirstLabelled(n, label)].head

\* the node where the walk from n along first label-edges stops within fuel
\* steps, None when it has not stopped by then
RECURSIVE WalkEnd(_, _, _)
WalkEnd(n, label, fuel) ==
    IF LabelledAt(n, label) = {} THEN n
    ELSE IF fuel = 0 THEN None
    ELSE WalkEnd(Successor(n, label), label, fuel - 1)

\* the walk from n never stops: it cannot visit more nodes than there are
WalkCycles(n, label) == WalkEnd(n, label, Len(nodeHeap)) = None

IsAddEdge == call.op = "add_edge"

IsFollow == call.op = "follow_edge_on_label"

IsFindNode == call.op = "find_node"

FollowHead == edgeHeap[call.args.edge].head

----------------------------------------------------------------------------
(* Claims about add_edge and add_node, checked under Spec *)

\* C1: when tail and head are Node objects the store holds, add_edge returns
\* an Edge e with the given label, tail and head, and right after the call
\* tail.outgoing[e.uid] is e, head.incoming[e.uid] is e and edge(e.uid) is e.
C1_AddEdgeLinksBothEndpoints ==
    (IsAddEdge /\ Held(call.args.tail) /\ Held(call.args.head)) =>
        /\ call.ret.kind = "edge"
        /\ LET e == call.ret.val
               uid == edgeHeap[e].uid
           IN  /\ DictGet(nodeHeap[call.args.tail].outgoing, uid) = e
               /\ DictGet(nodeHeap[call.args.head].incoming, uid) = e
               /\ edge(uid) = e
               /\ edgeHeap[e].label = call.args.label
               /\ edgeHeap[e].tail = call.args.tail
               /\ edgeHeap[e].head = call.args.head

\* an edge between two different held nodes, created under an explicit uid
\* that replaced an earlier edge
C1_Witness ==
    /\ IsAddEdge
    /\ Held(call.args.tail) /\ Held(call.args.head)
    /\ call.args.tail # call.args.head
    /\ call.args.kwargs.has
    /\ call.ret.kind = "edge"
    /\ Len(edgeHeap) = 2

\* C2: when exactly one of tail.uid and head.uid is a key of the node
\* mapping, add_edge raises nothing, returns the created Edge, and edge(uid)
\* retrieves that Edge.
C2_OneEndpointAbsentSucceeds ==
    (IsAddEdge /\ ((nodeHeap[call.args.tail].uid \in DictKeys(nodes))
                     # (nodeHeap[call.args.head].uid \in DictKeys(nodes)))) =>
        /\ call.ret.kind = "edge"
        /\ edge(edgeHeap[call.ret.val].uid) = call.ret.val

\* C3: an add_edge call made when neither tail.uid nor head.uid is a key of
\* the node mapping returns None and leaves the node mapping, the edge
\* mapping and every node's adjacency maps as they were.
C3_BothAbsentReturnsNoneUnchanged ==
    [][(/\ call'.op = "add_edge"
        /\ nextUid' # nextUid
        /\ nodeHeap[call'.args.tail].uid \notin DictKeys(nodes)
        /\ nodeHeap[call'.args.head].uid \notin DictKeys(nodes))
       => (/\ call'.ret = RetNone
           /\ nodes' = nodes
           /\ edges' = edges
           /\ nodeHeap' = nodeHeap
           /\ edgeHeap' = edgeHeap)]_vars

\* a failed add_edge on a store that holds a node and an edge
C3_Witness ==
    /\ IsAddEdge
    /\ call.ret = RetNone
    /\ nodeHeap[call.args.tail].uid \notin DictKeys(nodes)
    /\ nodeHeap[call.args.head].uid \notin DictKeys(nodes)
    /\ Len(nodes) > 0
    /\ Len(edges) > 0

\* C4: every Edge object created is a value of exactly one outgoing map, its
\* tail's, and of exactly one incoming map, its head's, once in each, and no
\* edge uid is a key of two nodes' outgoing maps or of two nodes' incoming maps.
C4_EdgeInExactlyOneMapEachWay ==
    /\ \A e \in EdgeRefs :
          /\ OutgoingHolders(e) = {edgeHeap[e].tail}
          /\ IncomingHolders(e) = {edgeHeap[e].head}
          /\ Occurrences(nodeHeap[edgeHeap[e].tail].outgoing, e) = 1
          /\ Occurrences(nodeHeap[edgeHeap[e].head].incoming, e) = 1
    /\ \A m \in NodeRefs, n \in NodeRefs :
          m # n =>
            /\ DictKeys(nodeHeap[m].outgoing) \cap DictKeys(nodeHeap[n].outgoing) = {}
            /\ DictKeys(nodeHeap[m].incoming) \cap DictKeys(nodeHeap[n].incoming) = {}

\* C10: add_node(p) without a uid argument returns a Node with properties p
\* and empty outgoing and incoming maps, whose uid is the uid of no other
\* Node, and which is the node that node(uid) returns.
C10_AddNodeReturnsFreshNode ==
    (call.op = "add_node" /\ ~call.args.kwargs.has) =>
        /\ call.ret.kind = "node"
        /\ LET n == call.ret.val
           IN  /\ n \in NodeRefs
               /\ nodeHeap[n].properties = call.args.properties
               /\ nodeHeap[n].outgoing = <<>>
               /\ nodeHeap[n].incoming = <<>>
               /\ \A m \in NodeRefs \ {n} : nodeHeap[m].uid # nodeHeap[n].uid
               /\ node(nodeHeap[n].uid) = n

\* a second node with properties, added to a store that has an edge
C10_Witness ==
    /\ call.op = "add_node"
    /\ ~call.args.kwargs.has
    /\ call.args.properties = Lucy
    /\ Len(nodes) = 2
    /\ Len(edges) > 0

----------------------------------------------------------------------------
(* Claims about find_node, checked under SpecFind *)

\* the nodes of the store, in the node mapping's order
StoredNodes == DictValues(nodes)

\* the number of pairs of query whose key candidate has with an equal value
MatchCount(candidate, query) ==
    Cardinality({key \in DOMAIN query \cap DOMAIN candidate :
                    candidate[key] = query[key]})

\* C5 as stated: a stored node with properties {type: Person, name: Lucy} is
\* in find_node({type: Person, name: Lucy}) and not in
\* find_node({type: Person, name: Bob}); a node that agrees with the query on
\* one pair and differs from it on another queried key is not in the result.
C5_PartialMatchExcluded ==
    IsFindNode =>
        \A n \in Range(StoredNodes) :
            LET p == nodeHeap[n].properties
                q == call.args.properties
            IN  /\ (p = Lucy /\ q = Lucy) => n \in Range(call.ret.val)
                /\ (p = Lucy /\ q = Bob) => n \notin Range(call.ret.val)
                /\ (/\ \E key \in DOMAIN q : PropGet(p, key) = q[key]
                    /\ \E key \in DOMAIN q : PropGet(p, key) # q[key])
                   => n \notin Range(call.ret.val)

\* C5 amended: a stored node with properties {type: Person, name: Lucy} is in
\* find_node({type: Person, name: Lucy}) and also in
\* find_node({type: Person, name: Bob}); a node that agrees with the query on
\* one pair is in the result even when it differs on another queried key.
C5_PartialMatchIncluded ==
    IsFindNode =>
        \A n \in Range(StoredNodes) :
            LET p == nodeHeap[n].properties
                q == call.args.properties
            IN  /\ (p = Lucy /\ q = Lucy) => n \in Range(call.ret.val)
                /\ (p = Lucy /\ q = Bob) => n \in Range(call.ret.val)
                /\ (\E key \in DOMAIN q \cap DOMAIN p : p[key] = q[key])
                   => n \in Range(call.ret.val)

\* the query {type: Person, name: Bob} finds the node of Lucy, and not a
\* node that matches on no key
C5_Witness ==
    /\ IsFindNode
    /\ call.args.properties = Bob
    /\ Len(call.ret.val) = 1
    /\ Len(nodes) = 2
    /\ nodeHeap[call.ret.val[1]].properties = Lucy

\* C6: find_node(query) is the sequence of the stored nodes with
\* match_count(node.properties, query) > 0, in the node mapping's order and
\* without duplicates, match_count counting the pairs of the query whose key
\* the node has with an equal value; find_node({}) is empty.
C6_FindNodeIsPositiveMatchCount ==
    IsFindNode =>
        LET q == call.args.properties
            positive(n) == MatchCount(nodeHeap[n].properties, q) > 0
        IN  /\ call.ret.val = SelectSeq(StoredNodes, positive)
            /\ \A i \in 1..Len(call.ret.val), j \in 1..Len(call.ret.val) :
                  i # j => call.ret.val[i] # call.ret.val[j]
            /\ q = EmptyDict => call.ret.val = <<>>

----------------------------------------------------------------------------
(* Claims about follow_edge_on_label, checked under SpecWalk *)

\* e1 and e2 form the chain A --WITHIN--> B --WITHIN--> C of three different
\* nodes, e2 being B's only outgoing edge and C having none labelled WITHIN
IsChain(e1, e2) ==
    LET A == edgeHeap[e1].tail
        B == edgeHeap[e1].head
        C == edgeHeap[e2].head
    IN  /\ edgeHeap[e1].label = "WITHIN"
        /\ edgeHeap[e2].label = "WITHIN"
        /\ edgeHeap[e2].tail = B
        /\ Cardinality({A, B, C}) = 3
        /\ DictValues(nodeHeap[B].outgoing) = <<e2>>
        /\ LabelledAt(C, "WITHIN") = {}

\* C7: a node that follow_edge_on_label(edge, L) returns is the end of the
\* walk from edge.head along the first outgoing L-edge of each node; it has no
\* outgoing L-edge and is not edge.head.  On the chain A -> B -> C of WITHIN
\* edges the call on the edge from A to B returns C.
C7_FollowReturnsEndOfWalk ==
    IsFollow =>
        /\ call.ret.kind = "node" =>
              /\ call.ret.val = WalkEnd(FollowHead, call.args.label, Len(nodeHeap))
              /\ LabelledAt(call.ret.val, call.args.label) = {}
              /\ call.ret.val # FollowHead
        /\ \A e2 \in EdgeRefs :
              (IsChain(call.args.edge, e2) /\ call.args.label = "WITHIN") =>
                  /\ call.ret.kind \in {"running", "node"}
                  /\ call.ret.kind = "node" => call.ret.val = edgeHeap[e2].head
                  /\ call.ret.kind = "running" => frame.hops <= 1

\* the call has returned C on the chain
C7_Witness ==
    /\ IsFollow
    /\ call.ret.kind = "node"
    /\ call.args.label = "WITHIN"
    /\ \E e2 \in EdgeRefs :
          IsChain(call.args.edge, e2) /\ call.ret.val = edgeHeap[e2].head

\* C8: follow_edge_on_label(edge, L) returns None at once when edge.head has
\* no outgoing edge labelled L, whatever the label of edge, and returns None
\* in no other case: not after a hop, and not when edge.head has such an edge.
C8_NoneIffHeadHasNoLabelledEdge ==
    IsFollow =>
        /\ LabelledAt(FollowHead, call.args.label) = {} =>
              call.ret = RetNone /\ frame.pc = "idle"
        /\ call.ret.kind = "none" =>
              LabelledAt(FollowHead, call.args.label) = {} /\ call.hops = 0
        /\ frame.pc = "loop" => call.ret.kind = "running"

\* None for an edge that itself has the label followed, its head having an
\* outgoing edge of the other label only
C8_Witness ==
    /\ IsFollow
    /\ call.ret = RetNone
    /\ edgeHeap[call.args.edge].label = call.args.label
    /\ nodeHeap[FollowHead].outgoing # <<>>

\* e1 and e2 form the two-node cycle X --label--> Y --label--> X, e1 being
\* the first outgoing edge labelled label of X and e2 that of Y
IsTwoCycle(e1, e2, label) ==
    LET X == edgeHeap[e1].tail
        Y == edgeHeap[e1].head
    IN  /\ X # Y
        /\ edgeHeap[e1].label = label
        /\ edgeHeap[e2].label = label
        /\ edgeHeap[e2].tail = Y
        /\ edgeHeap[e2].head = X
        /\ LabelledAt(X, label) # {} /\ FirstLabelled(X, label) = e1
        /\ LabelledAt(Y, label) # {} /\ FirstLabelled(Y, label) = e2

\* C9: follow_edge_on_label never returns, neither a node nor None, when the
\* walk from edge.head runs into a cycle of first L-edges; on the two-node
\* cycle X -> Y -> X it stays on X and Y.
C9_WalkOnCycleNeverReturns ==
    IsFollow =>
        /\ WalkCycles(FollowHead, call.args.label) =>
              call.ret.kind = "running" /\ frame.pc = "loop"
        /\ \A e2 \in EdgeRefs :
              IsTwoCycle(call.args.edge, e2, call.args.label) =>
                  /\ call.ret.kind = "running"
                  /\ frame.curr_head \in
                        {edgeHeap[call.args.edge].tail, edgeHeap[call.args.edge].head}

\* the walk is still running on the two-node cycle after MaxHops hops
C9_Witness ==
    /\ IsFollow
    /\ frame.pc = "loop"
    /\ frame.hops = MaxHops
    /\ \E e2 \in EdgeRefs : IsTwoCycle(call.args.edge, e2, call.args.label)

----------------------------------------------------------------------------
(* Claims about the store as a whole *)

\* the Edge object e is the one the store holds under its uid
HeldEdge(e) == edge(edgeHeap[e].uid) = e

\* C11 as stated: a Node or Edge that the store holds under its uid is held
\* under that uid after every later operation.
C11_CreatedStaysHeld ==
    [][/\ \A n \in NodeRefs : Held(n) => Held(n)'
       /\ \A e \in EdgeRefs : HeldEdge(e) => HeldEdge(e)']_vars

\* C11 amended: no uid leaves the node or edge mapping, and the Node or Edge
\* held under a uid stays held unless an add_node or add_edge call given that
\* uid explicitly replaces it.
C11_HeldUntilReplacedByExplicitUid ==
    [][/\ \A u \in DictKeys(nodes) :
             /\ u \in DictKeys(nodes')
             /\ DictGet(nodes', u) # DictGet(nodes, u) =>
                   /\ call'.op = "add_node"
                   /\ call'.args.kwargs = UidKwarg(u)
                   /\ call'.ret = RetNode(DictGet(nodes', u))
       /\ \A u \in DictKeys(edges) :
             /\ u \in DictKeys(edges')
             /\ DictGet(edges', u) # DictGet(edges, u) =>
                   /\ call'.op = "add_edge"
                   /\ call'.args.kwargs = UidKwarg(u)
                   /\ DictGet(edges', u) = Len(edgeHeap')]_vars

\* a node and an edge have been replaced under their uids
C11_Witness ==
    /\ \E n \in NodeRefs : ~Held(n) /\ nodeHeap[n].uid \in DictKeys(nodes)
    /\ \E e \in EdgeRefs : ~HeldEdge(e)
    /\ Len(nodes) = 1
    /\ Len(edges) = 1

----------------------------------------------------------------------------
(* Claims about the queries, checked under SpecQuery *)

QueryOps ==
    {"node", "edge", "find_node", "find_node_edges_label_outgoing",
     "find_node_edges_label_incoming", "follow_edge_on_label"}

\* C12: a step of node, edge, find_node, find_node_edges_label_outgoing,
\* find_node_edges_label_incoming or follow_edge_on_label leaves the node
\* mapping, the edge mapping, every adjacency map and every property map
\* unchanged.
C12_QueriesLeaveStoreUnchanged ==
    [][call'.op \in QueryOps =>
          /\ nodes' = nodes
          /\ edges' = edges
          /\ nodeHeap' = nodeHeap
          /\ edgeHeap' = edgeHeap
          /\ dicts' = dicts]_vars

\* every query operation has been called on a store with nodes and edges:
\* here the walk has returned a node
C12_Witness ==
    /\ IsFollow
    /\ call.ret.kind = "node"
    /\ Len(nodes) >= 2
    /\ Len(edges) >= 2

\* the Node (Edge) object inserted last under the uid u; under SpecQuery every
\* object of the heaps was inserted by add_node (add_edge)
LatestNode(u) ==
    CHOOSE n \in NodeRefs :
        /\ nodeHeap[n].uid = u
        /\ \A m \in NodeRefs : nodeHeap[m].uid = u => m <= n

LatestEdge(u) ==
    CHOOSE e \in EdgeRefs :
        /\ edgeHeap[e].uid = u
        /\ \A f \in EdgeRefs : edgeHeap[f].uid = u => f <= e

\* C13: node(uid) and edge(uid) raise nothing; each returns the entity
\* inserted last under uid when uid is a key of its mapping and None when
\* it is not, and changes nothing in the store.
C13_LookupReturnsLatestOrNone ==
    [][/\ call'.op = "node" =>
             /\ call'.ret = IF call'.args.uid \in DictKeys(nodes)
                            THEN RetNode(LatestNode(call'.args.uid))
                            ELSE RetNone
             /\ UNCHANGED <<nodes, edges, nodeHeap, edgeHeap, dicts>>
       /\ call'.op = "edge" =>
             /\ call'.ret = IF call'.args.uid \in DictKeys(edges)
                            THEN RetEdge(LatestEdge(call'.args.uid))
                            ELSE RetNone
             /\ UNCHANGED <<nodes, edges, nodeHeap, edgeHeap, dicts>>]_vars

\* edge(uid) has returned the second of two edges inserted under uid, on a
\* store where a node was replaced as well
C13_Witness ==
    /\ call.op = "edge"
    /\ call.ret.kind = "edge"
    /\ call.ret.val = 2
    /\ edgeHeap[1].uid = edgeHeap[2].uid
    /\ \E n \in NodeRefs : ~Held(n)

----------------------------------------------------------------------------
(* Claims about overwrites and partial updates, checked under Spec *)

\* C14: add_node(p, uid=u) with u a key of the node mapping replaces the
\* entry: node(u) becomes a new Node with properties p and empty adjacency
\* maps, the mapping keeps its number of entries, and the edges whose tail or
\* head is the replaced Node still refer to it and are in no adjacency map of
\* the new Node, while the replaced Node keeps its own maps.
C14_ExplicitUidOverwrites ==
    [][(/\ call'.op = "add_node"
        /\ nextUid' # nextUid
        /\ call'.args.kwargs.has
        /\ call'.args.kwargs.uid \in DictKeys(nodes))
       => LET u == call'.args.kwargs.uid
              old == DictGet(nodes, u)
              new == DictGet(nodes', u)
          IN  /\ new \notin NodeRefs
              /\ call'.ret = RetNode(new)
              /\ nodeHeap'[new].uid = u
              /\ nodeHeap'[new].properties = call'.args.properties
              /\ nodeHeap'[new].outgoing = <<>>
              /\ nodeHeap'[new].incoming = <<>>
              /\ Len(nodes') = Len(nodes)
              /\ DictKeys(nodes') = DictKeys(nodes)
              /\ nodeHeap'[old] = nodeHeap[old]
              /\ \A e \in EdgeRefs :
                    /\ edgeHeap'[e] = edgeHeap[e]
                    /\ (edgeHeap[e].tail = old \/ edgeHeap[e].head = old) =>
                          /\ e \notin Range(DictValues(nodeHeap'[new].outgoing))
                          /\ e \notin Range(DictValues(nodeHeap'[new].incoming))]_vars

\* a node with an outgoing and an incoming edge has just been replaced
C14_Witness ==
    /\ call.op = "add_node"
    /\ call.args.kwargs.has
    /\ \E old \in NodeRefs :
          /\ old # call.ret.val
          /\ nodeHeap[old].uid = call.args.kwargs.uid
          /\ nodeHeap[old].outgoing # <<>>
          /\ nodeHeap[old].incoming # <<>>
          /\ \E e \in EdgeRefs : edgeHeap[e].tail = old /\ HeldEdge(e)

\* C16: an add_edge call that does not return a created Edge leaves the edge
\* mapping and every node's outgoing and incoming maps unchanged.
C16_AddEdgeAllOrNothing ==
    [][(/\ call'.op = "add_edge"
        /\ nextUid' # nextUid
        /\ call'.ret.kind # "edge")
       => (/\ edges' = edges
           /\ \A n \in NodeRefs :
                 /\ nodeHeap'[n].outgoing = nodeHeap[n].outgoing
                 /\ nodeHeap'[n].incoming = nodeHeap[n].incoming)]_vars

\* C18: for every node n the node mapping holds, each entry (k, e) of
\* n.outgoing has k = e.uid and e.tail.uid = n.uid, and each entry (k, e) of
\* n.incoming has k = e.uid and e.head.uid = n.uid.
C18_AdjacencyEntriesConsistent ==
    \A n \in NodeRefs :
        Held(n) =>
            /\ \A i \in 1..Len(nodeHeap[n].outgoing) :
                  LET entry == nodeHeap[n].outgoing[i]
                  IN  /\ entry.k = edgeHeap[entry.v].uid
                      /\ nodeHeap[edgeHeap[entry.v].tail].uid = nodeHeap[n].uid
            /\ \A i \in 1..Len(nodeHeap[n].incoming) :
                  LET entry == nodeHeap[n].incoming[i]
                  IN  /\ entry.k = edgeHeap[entry.v].uid
                      /\ nodeHeap[edgeHeap[entry.v].head].uid = nodeHeap[n].uid

\* a held node lists an edge whose tail is another Node object with its uid,
\* and an edge that replaced another under its uid
C18_Witness ==
    \E n \in NodeRefs :
        /\ Held(n)
        /\ \E i \in 1..Len(nodeHeap[n].outgoing) :
              edgeHeap[nodeHeap[n].outgoing[i].v].tail # n
        /\ \E i \in 1..Len(nodeHeap[n].incoming) :
              nodeHeap[n].incoming[i].v = 2 /\ edgeHeap[1].uid = edgeHeap[2].uid

----------------------------------------------------------------------------
(* Claims about the label filters, checked under SpecQuery *)

\* the values of the entries i, i+1, ... of the dict d whose edge is
\* labelled label, in the order of d
RECURSIVE LabelledFrom(_, _, _)
LabelledFrom(d, label, i) ==
    IF i > Len(d) THEN <<>>
    ELSE (IF edgeHeap[d[i].v].label = label THEN <<d[i].v>> ELSE <<>>)
             \o LabelledFrom(d, label, i + 1)

Last(q) == q[Len(q)]

IsLast(e, q) == q # <<>> /\ Last(q) = e

\* the Edge object e is the only one created under its uid
FreshUid(e) == \A f \in EdgeRefs \ {e} : edgeHeap[f].uid # edgeHeap[e].uid

FiltersAreExact ==
    /\ call.op = "find_node_edges_label_outgoing" =>
          call.ret.val = LabelledFrom(nodeHeap[call.args.node].outgoing, call.args.label, 1)
    /\ call.op = "find_node_edges_label_incoming" =>
          call.ret.val = LabelledFrom(nodeHeap[call.args.node].incoming, call.args.label, 1)

----------------------------------------------------------------------------
(* Termination of the walk, checked under SpecWalk *)

\* the heads of the outgoing edges labelled label of the nodes of S
Successors(S, label) ==
    UNION {{edgeHeap[nodeHeap[n].outgoing[i].v].head : i \in LabelledAt(n, label)} :
              n \in S}

RECURSIVE Closure(_, _, _)
Closure(S, label, fuel) ==
    IF fuel = 0 THEN S
    ELSE Closure(S \cup Successors(S, label), label, fuel - 1)

\* the nodes reachable from n over one or more edges labelled label
Reachable(n, label) == Closure(Successors({n}, label), label, Len(nodeHeap))

\* no cycle of edges labelled label is reachable from n
Acyclic(n, label) ==
    \A m \in {n} \cup Reachable(n, label) : m \notin Reachable(m, label)

\* C17: when no cycle of L-edges is reachable from edge.head,
\* follow_edge_on_label takes at most as many hops as there are nodes
\* reachable from edge.head and then leaves its loop and returns.
C17_AcyclicWalkTerminates ==
    (IsFollow /\ Acyclic(FollowHead, call.args.label)) =>
        LET limit == Cardinality(Reachable(FollowHead, call.args.label))
        IN  /\ limit < MaxHops
            /\ frame.pc = "loop" =>
                  /\ frame.hops <= limit
                  /\ frame.hops = limit => ~LoopCondition
            /\ frame.pc # "loop" =>
                  /\ call.ret.kind \in {"none", "node"}
                  /\ call.hops <= limit

\* the walk has returned after a hop on a graph without cycles
C17_Witness ==
    /\ IsFollow
    /\ Acyclic(FollowHead, call.args.label)
    /\ call.ret.kind = "node"
    /\ call.hops >= 1
    /\ call.hops = Cardinality(Reachable(FollowHead, call.args.label))

----------------------------------------------------------------------------
(* The property maps of edges, checked under SpecProps *)

\* the property map of the Edge object e
EdgeProperties(e) == dicts[edgeHeap[e].properties]

\* C19: a write to one edge's properties by direct access leaves the
\* properties of every other edge unchanged, and those of the other edges
\* created without a properties argument empty.
C19_WriteLeavesOtherEdgesAlone ==
    [][call'.op = "properties.__setitem__" =>
          \A f \in EdgeRefs \ {call'.args.edge} :
              /\ EdgeProperties(f)' = EdgeProperties(f)
              /\ edgeHeap[f].properties = 1 /\ EdgeProperties(f) = EmptyDict
                    => EdgeProperties(f)' = EmptyDict]_vars

====
